---- MODULE Spec2Model ----
(***************************************************************************)
(* MediLink backend: appointment booking, rescheduling, lifecycle and      *)
(* slot listing.                                                           *)
(*                                                                         *)
(* The repository holds two revisions of the appointment logic:            *)
(*   "app"    - app/routers/citas.py, app/routers/disponibilidad.py, over  *)
(*              app/models and app/schemas (the routers main.py mounts);   *)
(*   "legacy" - routers/citas.py over models.py and schemas.py.            *)
(* A deployment runs one of them; rev is fixed by Init and never changes.  *)
(*                                                                         *)
(* Time is counted in minutes since Monday 00:00 of week 0.                *)
(***************************************************************************)
EXTENDS Integers, Sequences, FiniteSets, TLC

VARIABLES
    rev,                \* revision deployed: "app" or "legacy"
    now,                \* datetime.now(), in minutes
    inactivos,          \* the users whose Usuario.activo is False
    horarios,           \* table horarios_doctor (HorarioDoctor rows)
    horarios_auto,      \* the id the next row of horarios_doctor is given
    dias_no_laborales,  \* table dias_no_laborales (DiaNoLaboral rows)
    citas,              \* table citas: sequence of rows, row i has id i
    reqs,               \* requests in flight between their read and write
    last                \* the response of the last request handled

vars ==
    <<rev, now, inactivos, horarios, horarios_auto, dias_no_laborales, citas, reqs, last>>

----------------------------------------------------------------------------
(* Bounds of the model *)

MaxCitas == 2           \* rows the citas table may hold
MaxReqs == 2            \* requests in flight at once
MaxHorarios == 7        \* the largest id a row of horarios_doctor is given

----------------------------------------------------------------------------
(* Time *)

MinutosDia == 1440

Dia(t) == t \div MinutosDia          \* datetime.date()
Hora(t) == t % MinutosDia            \* datetime.time()
HM(h, m) == h * 60 + m
DT(d, h, m) == d * MinutosDia + HM(h, m)

\* DiaSemanaEnum, in date.weekday() order (0 = Monday)
DiaSemanaEnum == <<"LUNES", "MARTES", "MIERCOLES", "JUEVES", "VIERNES",
                   "SABADO", "DOMINGO">>

Weekday(t) == Dia(t) % 7             \* date.weekday()

\* strftime("%A").upper() followed by dia_map.get(...)
dia_map(t) == DiaSemanaEnum[Weekday(t) + 1]

NULL == "NULL"                       \* None, for text columns
NoFecha == -1                        \* None, for datetime columns

----------------------------------------------------------------------------
(* Users, patients and doctors (rows the identity collaborator provides) *)

Usuarios == {"up1", "up2", "ud1", "ud2"}

tipo_usuario(u) == IF u \in {"up1", "up2"} THEN "PACIENTE" ELSE "DOCTOR"

\* Paciente.usuario_id / Doctor.usuario_id lookups
PacienteDe(u) == IF u = "up1" THEN 1 ELSE IF u = "up2" THEN 2 ELSE 0
DoctorDe(u) == IF u = "ud1" THEN 1 ELSE IF u = "ud2" THEN 2 ELSE 0
\* Doctor.usuario of a doctor
UsuarioDe(doctor_id) == IF doctor_id = 1 THEN "ud1" ELSE "ud2"

Pacientes == {1, 2}
Doctores == {1, 2}
DoctorIds == {1, 2, 9}               \* 9: no such doctor
PacienteIds == {1, 9}                \* 9: no such patient
DoctorIdsLegacy == {1, 9}            \* the doctor_id values of legacy requests

\* Doctor.duracion_cita_minutos of the two doctors
duracion_cita_minutos(d) == IF d = 1 THEN 30 ELSE 45

----------------------------------------------------------------------------
(* Appointment states *)

\* app/models/enums.py EstadoCitaEnum
EstadoCitaEnum == {"PENDIENTE", "CONFIRMADA", "EN_CURSO", "COMPLETADA",
                   "CANCELADA_PACIENTE", "CANCELADA_DOCTOR", "NO_ASISTIO"}

\* models.py EstadoCitaEnum
LegacyEstadoCitaEnum == {"PENDIENTE", "CONFIRMADA", "CANCELADA", "COMPLETADA"}

Activas == {"PENDIENTE", "CONFIRMADA"}

Cita(id, paciente_id, doctor_id, fecha_hora, duracion_minutos) ==
    [id |-> id, paciente_id |-> paciente_id, doctor_id |-> doctor_id,
     fecha_hora |-> fecha_hora, duracion_minutos |-> duracion_minutos,
     estado |-> "PENDIENTE",
     notas_doctor |-> NULL, diagnostico |-> NULL,
     motivo_cancelacion |-> NULL, cancelado_por_usuario_id |-> NULL,
     fecha_cancelacion |-> NoFecha]

CitaIds == 1..Len(citas)

\* seeder.py create_citas: a row it may have written before the first
\* request, COMPLETADA with the doctor's notes (doctor 1, Tuesday 10:00)
CitaSembrada ==
    [Cita(1, 1, 1, DT(1, 10, 0), 30) EXCEPT
        !.estado = "COMPLETADA",
        !.notas_doctor = "Paciente evaluado, tratamiento prescrito",
        !.diagnostico = "Diagnostico preliminar basado en sintomas"]

\* [start, start + duration) of a row
Fin(c) == c.fecha_hora + c.duracion_minutos

---------------------------------------------------------------------------------------------------------------------------------------------------
(* The calendar tables of the app revision (the legacy revision has none). *)
(* No handler of the repository writes dias_no_laborales; the weekly rules *)
(* are written by app/routers/horarios.py.  Init draws both tables from    *)
(* the few contents below.                                                 *)

Horario(id, doctor_id, dia_semana, hora_inicio, hora_fin, activo) ==
    [id |-> id, doctor_id |-> doctor_id, dia_semana |-> dia_semana,
     hora_inicio |-> hora_inicio, hora_fin |-> hora_fin, activo |-> activo]

\* doctor 1: Monday and Tuesday mornings; doctor 2: Tuesday from 10:30, and
\* a Tuesday block 09:00-10:30 that is switched off
CalendarioSimple ==
    { Horario(1, 1, "LUNES", HM(9, 0), HM(12, 0), TRUE),
      Horario(2, 1, "MARTES", HM(9, 0), HM(12, 0), TRUE),
      Horario(3, 2, "MARTES", HM(10, 30), HM(12, 0), TRUE),
      Horario(4, 2, "MARTES", HM(9, 0), HM(10, 30), FALSE) }

\* doctor 1 also has a Tuesday afternoon block
CalendarioDosBloques ==
    CalendarioSimple \cup { Horario(5, 1, "MARTES", HM(15, 0), HM(18, 0), TRUE) }

\* the calendar of the initial state
Calendarios == {CalendarioDosBloques}

DiaNoLaboral(doctor_id, fecha) == [doctor_id |-> doctor_id, fecha |-> fecha]

\* doctor 2 is off on Tuesday of week 0; doctor 1 has no exception
Excepciones == { {DiaNoLaboral(2, 1)} }

----------------------------------------------------------------------------
(* Inputs *)

Lunes0800 == DT(0, 8, 0)
Lunes1000 == DT(0, 10, 0)
NowValues == {Lunes0800, Lunes1000}

\* requested starts: Monday 08:05 (now + 5 min at first, later in the past),
\* Tuesday 10:00 / 10:15 / 10:30, Tuesday 13:00 (between blocks), Tuesday
\* 15:30, and Tuesday of week 13
Starts == { DT(0, 8, 5), DT(1, 10, 0), DT(1, 10, 15), DT(1, 10, 30),
            DT(1, 13, 0), DT(1, 15, 30), DT(92, 10, 0) }

\* the starts a reschedule asks for: Monday 08:05 and Tuesday 10:30
StartsActualizar == { DT(0, 8, 5), DT(1, 10, 30) }

\* the states asked of PUT /{cita_id}/estado/{estado}
EstadosPedidos == {"CONFIRMADA", "COMPLETADA", "CANCELADA_PACIENTE"}

\* the starts requested of the legacy revision
StartsLegacy == { DT(0, 5, 0), DT(1, 10, 0), DT(1, 10, 15) }

\* the dates asked of the slot listing: today, Tuesday, Saturday
Fechas == {0, 1, 5}

-----
(* Responses *)

\* cita_id: the id of the row a booking created, else 0
Resp(op, status, detail, cita_id) ==
    [op |-> op, status |-> status, detail |-> detail, cita_id |-> cita_id,
     slots |-> <<>>]

NoResp == Resp("none", 0, "none", 0)

\* HTTP status of each outcome
Status(detail) ==
    CASE detail = "creada" -> 201
      [] detail = "ok" -> 200
      [] detail = "sin_contenido" -> 204
      [] detail \in {"fecha_futura", "antelacion_minima", "antelacion_maxima"} -> 422
      [] detail \in {"solo_pacientes", "solo_doctores", "no_puedes_cancelar",
                     "usuario_inactivo", "no_tienes_permiso"} -> 403
      [] detail \in {"doctor_no_encontrado", "paciente_no_encontrado",
                     "cita_no_encontrada"} -> 404
      [] detail = "horario_no_encontrado" -> 404
      [] detail \in {"AttributeError", "IntegrityError", "error_al_crear"} -> 500
      [] OTHER -> 400

----------------------------------------------------------------------------
(* app revision: the dependency of every authenticated handler. It raises  *)
(* before the request body is validated.                                   *)

get_current_user(u) == IF u \in inactivos THEN "usuario_inactivo" ELSE "ok"

----------------------------------------------------------------------------
(* app revision: request schemas (app/schemas/cita.py) *)

ANTELACION_MINIMA == 1440       \* timedelta(hours=24)
ANTELACION_MAXIMA == 129600     \* timedelta(days=90)

\* CitaCreate with a strict comparison for the minimum lead time
CitaCreate_validar_estricto(v) ==
    IF v <= now THEN "fecha_futura"
    ELSE IF v < now + ANTELACION_MINIMA THEN "antelacion_minima"
    ELSE IF v > now + ANTELACION_MAXIMA THEN "antelacion_maxima"
    ELSE "ok"

\* CitaCreate: validar_fecha_futura, then validar_antelacion_minima
CitaCreate_validar(v) ==
    IF v <= now THEN "fecha_futura"
    ELSE IF v <= now + ANTELACION_MINIMA THEN "antelacion_minima"
    ELSE IF v > now + ANTELACION_MAXIMA THEN "antelacion_maxima"
    ELSE "ok"

\* CitaUpdate: validar_fecha_futura (fecha_hora is optional: NoFecha when unset)
CitaUpdate_validar(v) ==
    IF v # NoFecha /\ v <= now THEN "fecha_futura" ELSE "ok"

----------------------------------------------------------------------------
(* app revision: validar_disponibilidad_doctor (app/routers/citas.py) *)

\* the rows of the query of step 3; .first() returns one of them, or None
HorariosDelDia(doctor_id, fecha_hora) ==
    { h \in horarios : /\ h.doctor_id = doctor_id
                       /\ h.dia_semana = dia_map(fecha_hora)
                       /\ h.activo }

NoHorario == Horario(0, 0, NULL, 0, 0, FALSE)      \* None

first(rows) == IF rows = {} THEN {NoHorario} ELSE rows

\* citas_existentes without its filter on estado
citas_existentes_sin_estado(tabla, doctor_id, excluir_cita_id) ==
    { i \in 1..Len(tabla) : /\ tabla[i].doctor_id = doctor_id
                            /\ (excluir_cita_id # 0 => i # excluir_cita_id) }

\* step 4: the rows of citas_existentes
citas_existentes(tabla, doctor_id, excluir_cita_id) ==
    { i \in 1..Len(tabla) : /\ tabla[i].doctor_id = doctor_id
                            /\ tabla[i].estado \in {"PENDIENTE", "CONFIRMADA"}
                            /\ (excluir_cita_id # 0 => i # excluir_cita_id) }

\* "Verificar si hay superposicion"
superposicion(fecha_hora, fecha_fin, c) ==
    fecha_hora < Fin(c) /\ fecha_fin > c.fecha_hora

\* horario is the row .first() returned in step 3
validar_disponibilidad_doctor(tabla, doctor_id, fecha_hora, duracion_minutos, excluir_cita_id, horario) ==
    IF fecha_hora <= now THEN "fechas_pasadas"
    ELSE IF doctor_id \notin Doctores THEN "doctor_no_encontrado"
    ELSE IF horario = NoHorario THEN "no_atiende"
    ELSE IF ~(horario.hora_inicio <= Hora(fecha_hora)
              /\ Hora(fecha_hora) < horario.hora_fin) THEN "fuera_de_horario"
    ELSE IF \E i \in citas_existentes(tabla, doctor_id, excluir_cita_id) :
              superposicion(fecha_hora, fecha_hora + duracion_minutos, tabla[i])
         THEN "cita_programada"
    ELSE "ok"

----------------------------------------------------------------------------
(* app revision: POST /api/citas/ (crear_cita) *)

\* everything crear_cita does before it writes: the outcome of the request
crear_cita_validar(u, doctor_id, fecha_hora, horario) ==
    IF get_current_user(u) # "ok" THEN get_current_user(u)
    ELSE IF CitaCreate_validar(fecha_hora) # "ok" THEN CitaCreate_validar(fecha_hora)
    ELSE IF tipo_usuario(u) # "PACIENTE" THEN "solo_pacientes"
    ELSE IF doctor_id \notin Doctores THEN "doctor_no_encontrado"
    ELSE validar_disponibilidad_doctor(citas, doctor_id, fecha_hora,
                                       duracion_cita_minutos(doctor_id), 0, horario)

\* the row of a booking, one stored as already confirmed
nueva_cita_confirmada(u, doctor_id, fecha_hora) ==
    [Cita(Len(citas) + 1, PacienteDe(u), doctor_id, fecha_hora,
          duracion_cita_minutos(doctor_id)) EXCEPT !.estado = "CONFIRMADA"]

\* Cita(paciente_id=..., doctor_id=..., fecha_hora=..., estado=PENDIENTE)
nueva_cita(u, doctor_id, fecha_hora) ==
    Cita(Len(citas) + 1, PacienteDe(u), doctor_id, fecha_hora,
         duracion_cita_minutos(doctor_id))

crear_cita ==
    /\ rev = "app"
    /\ \E u \in Usuarios, d \in DoctorIds, fh \in Starts :
         \E h \in first(HorariosDelDia(d, fh)) :
           LET r == crear_cita_validar(u, d, fh, h) IN
             IF r = "ok"
             THEN /\ Len(citas) < MaxCitas
                  /\ citas' = Append(citas, nueva_cita(u, d, fh))
                  /\ last' = Resp("crear_cita", 201, "creada", Len(citas) + 1)
             ELSE /\ citas' = citas
                  /\ last' = Resp("crear_cita", Status(r), r, 0)
    /\ UNCHANGED <<rev, inactivos, horarios_auto, now, horarios, dias_no_laborales, reqs>>

----------------------------------------------------------------------------
(* legacy revision: POST /api/citas (routers/citas.py crear_cita) *)

\* models.Cita has no duration column; its rows are given the length of
\* one slot, the default of Cita.duracion_minutos
DuracionLegacy == 30

legacy_cita_existente(tabla, doctor_id, fecha_hora, excluir_cita_id) ==
    \E i \in 1..Len(tabla) : /\ tabla[i].doctor_id = doctor_id
                             /\ tabla[i].fecha_hora = fecha_hora
                             /\ i # excluir_cita_id
                             /\ tabla[i].estado \in {"PENDIENTE", "CONFIRMADA"}

legacy_crear_cita_validar(paciente_id, doctor_id, fecha_hora) ==
    IF paciente_id \notin Pacientes THEN "paciente_no_encontrado"
    ELSE IF doctor_id \notin Doctores THEN "doctor_no_encontrado"
    ELSE IF fecha_hora <= now THEN "fecha_futura_legacy"
    ELSE IF legacy_cita_existente(citas, doctor_id, fecha_hora, 0)
         THEN "cita_agendada"
    ELSE "ok"

legacy_crear_cita ==
    /\ rev = "legacy"
    /\ \E p \in PacienteIds, d \in DoctorIdsLegacy, fh \in StartsLegacy :
         LET r == legacy_crear_cita_validar(p, d, fh) IN
           IF r = "ok"
           THEN /\ Len(citas) < MaxCitas
                /\ citas' = Append(citas, Cita(Len(citas) + 1, p, d, fh, DuracionLegacy))
                /\ last' = Resp("crear_cita", 201, "creada", Len(citas) + 1)
           ELSE /\ citas' = citas
                /\ last' = Resp("crear_cita", Status(r), r, 0)
    /\ UNCHANGED <<rev, inactivos, horarios_auto, now, horarios, dias_no_laborales, reqs>>

----------------------------------------------------------------------------
(* app revision: the lifecycle handlers of app/routers/citas.py.           *)
(* Each of them names EstadoCitaEnum.CANCELADA, which app/models/enums.py  *)
(* does not define: evaluating the name raises AttributeError and the      *)
(* request ends with status 500 before the handler has changed the row.    *)

\* evaluating EstadoCitaEnum.<name>
AttributeError(name) == name \notin EstadoCitaEnum

CitaDe(cita_id) == IF cita_id \in CitaIds THEN citas[cita_id] ELSE Cita(0, 0, 0, 0, 0)

\* PUT /api/citas/{cita_id} (actualizar_cita): fecha_hora is the new start
actualizar_cita_validar(u, cita_id, fecha_hora, horario) ==
    IF get_current_user(u) # "ok" THEN get_current_user(u)
    ELSE IF CitaUpdate_validar(fecha_hora) # "ok" THEN CitaUpdate_validar(fecha_hora)
    ELSE IF tipo_usuario(u) # "PACIENTE" THEN "solo_pacientes"
    ELSE IF cita_id \notin CitaIds \/ CitaDe(cita_id).paciente_id # PacienteDe(u)
         THEN "cita_no_encontrada"
    ELSE IF AttributeError("CANCELADA") THEN "AttributeError"
    ELSE IF CitaDe(cita_id).estado \in {"CANCELADA", "COMPLETADA"}
         THEN "no_se_puede_actualizar"
    ELSE IF fecha_hora # NoFecha /\ fecha_hora # CitaDe(cita_id).fecha_hora
         THEN validar_disponibilidad_doctor(citas, CitaDe(cita_id).doctor_id,
                  fecha_hora, CitaDe(cita_id).duracion_minutos, cita_id, horario)
    ELSE "ok"

actualizar_cita ==
    /\ rev = "app"
    /\ \E u \in Usuarios, id \in 1..MaxCitas, fh \in StartsActualizar \cup {NoFecha} :
         \E h \in first(HorariosDelDia(CitaDe(id).doctor_id, fh)) :
           LET r == actualizar_cita_validar(u, id, fh, h) IN
             /\ citas' = IF r = "ok" /\ fh # NoFecha
                         THEN [citas EXCEPT ![id].fecha_hora = fh]
                         ELSE citas
             /\ last' = Resp("actualizar_cita", Status(r), r,
                             IF r = "ok" THEN id ELSE 0)
    /\ UNCHANGED <<rev, inactivos, horarios_auto, now, horarios, dias_no_laborales, reqs>>

\* PUT /api/citas/{cita_id}/cancelar (cancelar_cita)
cancelar_cita_validar(u, cita_id) ==
    IF get_current_user(u) # "ok" THEN get_current_user(u)
    ELSE IF cita_id \notin CitaIds THEN "cita_no_encontrada"
    ELSE IF /\ tipo_usuario(u) = "PACIENTE"
            /\ CitaDe(cita_id).paciente_id # PacienteDe(u) THEN "no_puedes_cancelar"
    ELSE IF /\ tipo_usuario(u) = "DOCTOR"
            /\ CitaDe(cita_id).doctor_id # DoctorDe(u) THEN "no_puedes_cancelar"
    ELSE IF AttributeError("CANCELADA") THEN "AttributeError"
    ELSE IF CitaDe(cita_id).estado \in {"CANCELADA", "COMPLETADA"}
         THEN "no_se_puede_cancelar"
    ELSE "ok"

cancelar_cita ==
    /\ rev = "app"
    /\ \E u \in Usuarios, id \in 1..MaxCitas, motivo \in {"motivo_1"} :
         LET r == cancelar_cita_validar(u, id) IN
           /\ citas' = IF r = "ok"
                       THEN [citas EXCEPT ![id].estado = "CANCELADA",
                                          ![id].motivo_cancelacion = motivo,
                                          ![id].cancelado_por_usuario_id = u,
                                          ![id].fecha_cancelacion = now]
                       ELSE citas
           /\ last' = Resp("cancelar_cita", Status(r), r, 0)
    /\ UNCHANGED <<rev, inactivos, horarios_auto, now, horarios, dias_no_laborales, reqs>>

\* PUT /api/citas/{cita_id}/completar (completar_cita)
completar_cita_validar(u, cita_id) ==
    IF get_current_user(u) # "ok" THEN get_current_user(u)
    ELSE IF tipo_usuario(u) # "DOCTOR" THEN "solo_doctores"
    ELSE IF cita_id \notin CitaIds \/ CitaDe(cita_id).doctor_id # DoctorDe(u)
         THEN "cita_no_encontrada"
    ELSE IF AttributeError("CANCELADA") THEN "AttributeError"
    ELSE IF CitaDe(cita_id).estado = "CANCELADA" THEN "no_se_puede_completar"
    ELSE "ok"

completar_cita ==
    /\ rev = "app"
    /\ \E u \in Usuarios, id \in 1..MaxCitas,
          notas \in {"notas_1"}, diag \in {"diagnostico_1"} :
         LET r == completar_cita_validar(u, id) IN
           /\ citas' = IF r = "ok"
                       THEN [citas EXCEPT ![id].estado = "COMPLETADA",
                                          ![id].notas_doctor = notas,
                                          ![id].diagnostico = diag]
                       ELSE citas
           /\ last' = Resp("completar_cita", Status(r), r, 0)
    /\ UNCHANGED <<rev, inactivos, horarios_auto, now, horarios, dias_no_laborales, reqs>>

\* PUT /api/citas/{cita_id}/estado/{estado} (cambiar_estado_cita)
cambiar_estado_cita_validar(u, cita_id, estado) ==
    IF get_current_user(u) # "ok" THEN get_current_user(u)
    ELSE IF tipo_usuario(u) # "DOCTOR" THEN "solo_doctores"
    ELSE IF cita_id \notin CitaIds \/ CitaDe(cita_id).doctor_id # DoctorDe(u)
         THEN "cita_no_encontrada"
    ELSE IF AttributeError("CANCELADA") THEN "AttributeError"
    ELSE IF estado = "CANCELADA" THEN "use_cancelacion"
    ELSE IF estado = "COMPLETADA" THEN "use_completar"
    ELSE "ok"

cambiar_estado_cita ==
    /\ rev = "app"
    /\ \E u \in Usuarios, id \in 1..MaxCitas, estado \in EstadosPedidos :
         LET r == cambiar_estado_cita_validar(u, id, estado) IN
           /\ citas' = IF r = "ok" THEN [citas EXCEPT ![id].estado = estado]
                       ELSE citas
           /\ last' = Resp("cambiar_estado_cita", Status(r), r, 0)
    /\ UNCHANGED <<rev, inactivos, horarios_auto, now, horarios, dias_no_laborales, reqs>>

----------------------------------------------------------------------------
(* app revision: DELETE /api/usuarios/{usuario_id} (app/routers/usuarios.py *)
(* desactivar_usuario): a user deactivates the own account                  *)

desactivar_usuario_validar(u, usuario_id) ==
    IF get_current_user(u) # "ok" THEN get_current_user(u)
    ELSE IF u # usuario_id THEN "no_tienes_permiso"
    ELSE "sin_contenido"

desactivar_usuario ==
    /\ rev = "app"
    /\ \E u \in Usuarios, usuario_id \in Usuarios :
         LET r == desactivar_usuario_validar(u, usuario_id) IN
           /\ inactivos' = IF r = "sin_contenido"
                           THEN inactivos \cup {usuario_id}
                           ELSE inactivos
           /\ last' = Resp("desactivar_usuario", Status(r), r, 0)
    /\ UNCHANGED <<rev, now, horarios, horarios_auto, dias_no_laborales, citas, reqs>>

----------------------------------------------------------------------------
(* app revision: the weekly rules (app/routers/horarios.py).  The table    *)
(* horarios_doctor has the unique constraint uq_horario_doctor on          *)
(* (doctor_id, dia_semana, hora_inicio); a commit that breaks it raises    *)
(* IntegrityError and stores nothing.                                      *)

\* the values of the requests
HorarioIdsPedidos == {2, 6, 9}          \* a seeded row, a created one, none
DoctorIdsHorario == {1, 9}
HorasPedidas == { HM(9, 0), HM(10, 0), HM(12, 0) }

\* HorarioDoctorBase
HorarioDoctorBase(dia_semana, hora_inicio, hora_fin, activo) ==
    [dia_semana |-> dia_semana, hora_inicio |-> hora_inicio,
     hora_fin |-> hora_fin, activo |-> activo]

\* the lists of the bulk requests
ListasBulk ==
    { <<>>,
      << HorarioDoctorBase("MIERCOLES", HM(9, 0), HM(12, 0), TRUE) >>,
      << HorarioDoctorBase("MIERCOLES", HM(9, 0), HM(10, 0), TRUE),
         HorarioDoctorBase("MIERCOLES", HM(9, 0), HM(12, 0), TRUE) >>,
      << HorarioDoctorBase("MARTES", HM(10, 0), HM(12, 0), TRUE),
         HorarioDoctorBase("MARTES", HM(12, 0), HM(10, 0), TRUE) >>,
      << HorarioDoctorBase("MARTES", HM(10, 0), HM(11, 0), TRUE),
         HorarioDoctorBase("MARTES", HM(10, 30), HM(12, 0), FALSE) >> }

\* a row other than excluir_id holds the key of uq_horario_doctor
uq_horario_doctor(tabla, doctor_id, dia_semana, hora_inicio, excluir_id) ==
    \E h \in tabla : /\ h.id # excluir_id
                     /\ h.doctor_id = doctor_id
                     /\ h.dia_semana = dia_semana
                     /\ h.hora_inicio = hora_inicio

\* the checks of crear_horario, one that leaves out the check of the hours
crear_horario_validar_sin_horas(doctor_id, dia_semana, hora_inicio, hora_fin) ==
    IF doctor_id \notin Doctores THEN "doctor_no_encontrado"
    ELSE IF uq_horario_doctor(horarios, doctor_id, dia_semana, hora_inicio, 0)
         THEN "ya_existe_horario"
    ELSE "creada"

\* POST /api/horarios (crear_horario)
crear_horario_validar(doctor_id, dia_semana, hora_inicio, hora_fin) ==
    IF doctor_id \notin Doctores THEN "doctor_no_encontrado"
    ELSE IF hora_inicio >= hora_fin THEN "hora_inicio_menor"
    ELSE IF uq_horario_doctor(horarios, doctor_id, dia_semana, hora_inicio, 0)
         THEN "ya_existe_horario"
    ELSE "creada"

crear_horario ==
    /\ rev = "app"
    /\ \E d \in DoctorIdsHorario, hi \in HorasPedidas, hf \in HorasPedidas :
         LET r == crear_horario_validar(d, "MARTES", hi, hf) IN
           IF r = "creada"
           THEN /\ horarios_auto <= MaxHorarios
                /\ horarios' = horarios \cup
                       { Horario(horarios_auto, d, "MARTES", hi, hf, TRUE) }
                /\ horarios_auto' = horarios_auto + 1
                /\ last' = Resp("crear_horario", 201, r, 0)
           ELSE /\ UNCHANGED <<horarios, horarios_auto>>
                /\ last' = Resp("crear_horario", Status(r), r, 0)
    /\ UNCHANGED <<rev, now, inactivos, dias_no_laborales, citas, reqs>>

HorarioDe(horario_id) == { h \in horarios : h.id = horario_id }

\* PUT /api/horarios/{horario_id} (actualizar_horario)
actualizar_horario_validar(horario_id, dia_semana, hora_inicio, hora_fin) ==
    IF HorarioDe(horario_id) = {} THEN "horario_no_encontrado"
    ELSE IF hora_inicio >= hora_fin THEN "hora_inicio_menor"
    ELSE IF \E h \in HorarioDe(horario_id) :
               uq_horario_doctor(horarios, h.doctor_id, dia_semana, hora_inicio,
                                 horario_id)
         THEN "IntegrityError"
    ELSE "ok"

actualizar_horario ==
    /\ rev = "app"
    /\ \E id \in HorarioIdsPedidos, hi \in HorasPedidas, hf \in HorasPedidas,
          activo \in BOOLEAN :
         LET r == actualizar_horario_validar(id, "MARTES", hi, hf) IN
           /\ horarios' = IF r = "ok"
                          THEN { IF h.id = id
                                 THEN Horario(id, h.doctor_id, "MARTES", hi, hf, activo)
                                 ELSE h : h \in horarios }
                          ELSE horarios
           /\ last' = Resp("actualizar_horario", Status(r), r, 0)
    /\ UNCHANGED <<rev, now, inactivos, horarios_auto, dias_no_laborales, citas, reqs>>

\* DELETE /api/horarios/{horario_id} (eliminar_horario)
eliminar_horario_validar(horario_id) ==
    IF HorarioDe(horario_id) = {} THEN "horario_no_encontrado" ELSE "sin_contenido"

eliminar_horario ==
    /\ rev = "app"
    /\ \E id \in HorarioIdsPedidos :
         LET r == eliminar_horario_validar(id) IN
           /\ horarios' = IF r = "sin_contenido"
                          THEN horarios \ HorarioDe(id) ELSE horarios
           /\ last' = Resp("eliminar_horario", Status(r), r, 0)
    /\ UNCHANGED <<rev, now, inactivos, horarios_auto, dias_no_laborales, citas, reqs>>

\* PATCH /api/horarios/{horario_id}/toggle (toggle_horario)
toggle_horario_validar(horario_id) ==
    IF HorarioDe(horario_id) = {} THEN "horario_no_encontrado" ELSE "ok"

toggle_horario ==
    /\ rev = "app"
    /\ \E id \in HorarioIdsPedidos :
         LET r == toggle_horario_validar(id) IN
           /\ horarios' = IF r = "ok"
                          THEN { IF h.id = id THEN [h EXCEPT !.activo = ~h.activo]
                                 ELSE h : h \in horarios }
                          ELSE horarios
           /\ last' = Resp("toggle_horario", Status(r), r, 0)
    /\ UNCHANGED <<rev, now, inactivos, horarios_auto, dias_no_laborales, citas, reqs>>

\* the commit of the rows of a bulk request breaks uq_horario_doctor
bulk_duplicado(doctor_id, lista) ==
    \/ \E k \in 1..Len(lista) :
          uq_horario_doctor(horarios, doctor_id, lista[k].dia_semana,
                            lista[k].hora_inicio, 0)
    \/ \E j \in 1..Len(lista), k \in 1..Len(lista) :
          /\ j < k
          /\ lista[j].dia_semana = lista[k].dia_semana
          /\ lista[j].hora_inicio = lista[k].hora_inicio

\* POST /api/horarios/doctor/{doctor_id}/bulk (crear_horarios_bulk)
crear_horarios_bulk_validar(doctor_id, lista) ==
    IF doctor_id \notin Doctores THEN "doctor_no_encontrado"
    ELSE IF Len(lista) = 0 THEN "al_menos_un_horario"
    ELSE IF \E k \in 1..Len(lista) : lista[k].hora_inicio >= lista[k].hora_fin
         THEN "horario_invalido"
    ELSE IF bulk_duplicado(doctor_id, lista) THEN "error_al_crear"
    ELSE "ok"

crear_horarios_bulk ==
    /\ rev = "app"
    /\ \E d \in DoctorIdsHorario, lista \in ListasBulk :
         LET r == crear_horarios_bulk_validar(d, lista) IN
           IF r = "ok"
           THEN /\ horarios_auto + Len(lista) - 1 <= MaxHorarios
                /\ horarios' = horarios \cup
                       { Horario(horarios_auto + k - 1, d, lista[k].dia_semana,
                                 lista[k].hora_inicio, lista[k].hora_fin,
                                 lista[k].activo) : k \in 1..Len(lista) }
                /\ horarios_auto' = horarios_auto + Len(lista)
                /\ last' = Resp("crear_horarios_bulk", 200, r, 0)
           ELSE /\ UNCHANGED <<horarios, horarios_auto>>
                /\ last' = Resp("crear_horarios_bulk", Status(r), r, 0)
    /\ UNCHANGED <<rev, now, inactivos, dias_no_laborales, citas, reqs>>

----------------------------------------------------------------------------
(* legacy revision: the other handlers of routers/citas.py *)

\* PATCH /api/citas/{cita_id} (actualizar_cita): fecha_hora and estado are
\* optional (NoFecha, NULL when unset)
legacy_actualizar_cita_validar(cita_id, fecha_hora) ==
    IF cita_id \notin CitaIds THEN "cita_no_encontrada"
    ELSE IF fecha_hora # NoFecha /\ fecha_hora <= now THEN "fecha_futura_legacy"
    ELSE IF /\ fecha_hora # NoFecha
            /\ legacy_cita_existente(citas, CitaDe(cita_id).doctor_id,
                                     fecha_hora, cita_id)
         THEN "cita_agendada"
    ELSE "ok"

\* the loop of setattr over the fields the request carries, one that
\* assigns every field again from a new Cita
aplicar_actualizaciones_recrea(c, fecha_hora, estado) ==
    [Cita(c.id, c.paciente_id, c.doctor_id, c.fecha_hora, c.duracion_minutos)
        EXCEPT !.fecha_hora = IF fecha_hora # NoFecha THEN fecha_hora ELSE @,
               !.estado = IF estado # NULL THEN estado ELSE @]

\* the loop of setattr over the fields the request carries
aplicar_actualizaciones(c, fecha_hora, estado) ==
    [c EXCEPT !.fecha_hora = IF fecha_hora # NoFecha THEN fecha_hora ELSE @,
              !.estado = IF estado # NULL THEN estado ELSE @]

legacy_actualizar_cita ==
    /\ rev = "legacy"
    /\ \E id \in 1..MaxCitas, fh \in StartsLegacy \cup {NoFecha},
          estado \in LegacyEstadoCitaEnum \cup {NULL} :
         LET r == legacy_actualizar_cita_validar(id, fh) IN
           /\ citas' = IF r = "ok"
                       THEN [citas EXCEPT
                               ![id] = aplicar_actualizaciones(@, fh, estado)]
                       ELSE citas
           /\ last' = Resp("actualizar_cita", Status(r), r,
                           IF r = "ok" THEN id ELSE 0)
    /\ UNCHANGED <<rev, inactivos, horarios_auto, now, horarios, dias_no_laborales, reqs>>

\* DELETE /api/citas/{cita_id} (cancelar_cita)
legacy_cancelar_cita_validar(cita_id) ==
    IF cita_id \notin CitaIds THEN "cita_no_encontrada" ELSE "sin_contenido"

\* DELETE /api/citas/{cita_id}, one that deletes the row
legacy_cancelar_cita_elimina ==
    /\ rev = "legacy"
    /\ \E id \in 1..MaxCitas :
         LET r == legacy_cancelar_cita_validar(id) IN
           /\ citas' = IF r = "sin_contenido"
                       THEN [j \in 1..(Len(citas) - 1) |->
                               IF j < id THEN citas[j] ELSE citas[j + 1]]
                       ELSE citas
           /\ last' = Resp("cancelar_cita", Status(r), r, 0)
    /\ UNCHANGED <<rev, inactivos, horarios_auto, now, horarios, dias_no_laborales, reqs>>

legacy_cancelar_cita ==
    /\ rev = "legacy"
    /\ \E id \in 1..MaxCitas :
         LET r == legacy_cancelar_cita_validar(id) IN
           /\ citas' = IF r = "sin_contenido"
                       THEN [citas EXCEPT ![id].estado = "CANCELADA"]
                       ELSE citas
           /\ last' = Resp("cancelar_cita", Status(r), r, 0)
    /\ UNCHANGED <<rev, inactivos, horarios_auto, now, horarios, dias_no_laborales, reqs>>

\* POST /api/citas/{cita_id}/confirmar (confirmar_cita)
legacy_confirmar_cita_validar(cita_id) ==
    IF cita_id \notin CitaIds THEN "cita_no_encontrada"
    ELSE IF CitaDe(cita_id).estado # "PENDIENTE" THEN "solo_pendientes"
    ELSE "ok"

legacy_confirmar_cita ==
    /\ rev = "legacy"
    /\ \E id \in 1..MaxCitas :
         LET r == legacy_confirmar_cita_validar(id) IN
           /\ citas' = IF r = "ok" THEN [citas EXCEPT ![id].estado = "CONFIRMADA"]
                       ELSE citas
           /\ last' = Resp("confirmar_cita", Status(r), r, 0)
    /\ UNCHANGED <<rev, inactivos, horarios_auto, now, horarios, dias_no_laborales, reqs>>

\* POST /api/citas/{cita_id}/completar (completar_cita)
legacy_completar_cita_validar(cita_id) ==
    IF cita_id \notin CitaIds THEN "cita_no_encontrada"
    ELSE IF CitaDe(cita_id).estado = "CANCELADA" THEN "no_se_puede_completar"
    ELSE "ok"

legacy_completar_cita ==
    /\ rev = "legacy"
    /\ \E id \in 1..MaxCitas :
         LET r == legacy_completar_cita_validar(id) IN
           /\ citas' = IF r = "ok" THEN [citas EXCEPT ![id].estado = "COMPLETADA"]
                       ELSE citas
           /\ last' = Resp("completar_cita", Status(r), r, 0)
    /\ UNCHANGED <<rev, inactivos, horarios_auto, now, horarios, dias_no_laborales, reqs>>

----------------------------------------------------------------------------
(* app revision: the slot listing of app/routers/disponibilidad.py *)

HORA_INICIO == 8
HORA_FIN == 18
DURACION_CITA == 30
DIAS_LABORALES == {0, 1, 2, 3, 4}
ANTICIPACION == 60              \* timedelta(hours=1)

\* the while loop of generar_horarios_del_dia; fecha is a day number
RECURSIVE generar_bucle(_, _, _, _)
generar_bucle(fecha, hora_actual, minuto_actual, acc) ==
    IF ~(hora_actual < HORA_FIN) THEN acc
    ELSE LET horario == DT(fecha, hora_actual, minuto_actual)
             minuto == minuto_actual + DURACION_CITA
         IN  IF minuto >= 60
             THEN generar_bucle(fecha, hora_actual + 1, 0, Append(acc, horario))
             ELSE generar_bucle(fecha, hora_actual, minuto, Append(acc, horario))

generar_horarios_del_dia(fecha) == generar_bucle(fecha, HORA_INICIO, 0, <<>>)

\* the start times of citas_ocupadas
horarios_ocupados(doctor_id, fecha) ==
    { citas[i].fecha_hora : i \in
        { j \in CitaIds : /\ citas[j].doctor_id = doctor_id
                          /\ citas[j].fecha_hora >= DT(fecha, 0, 0)
                          /\ citas[j].fecha_hora <= DT(fecha, 23, 59)
                          /\ citas[j].estado \in {"PENDIENTE", "CONFIRMADA"} } }

\* strftime("%H:%M") of each element
HoraMinuto(seq) == [i \in 1..Len(seq) |-> Hora(seq[i])]

\* horarios_disponibles of GET /api/disponibilidad/doctor/{doctor_id}?fecha=
horarios_disponibles(doctor_id, fecha) ==
    IF Weekday(DT(fecha, 0, 0)) \notin DIAS_LABORALES THEN <<>>
    ELSE LET todos_horarios == generar_horarios_del_dia(fecha)
             Futuro(h) == h > now + ANTICIPACION
             del_dia == IF fecha = Dia(now)
                        THEN SelectSeq(todos_horarios, Futuro)
                        ELSE todos_horarios
             Libre(h) == h \notin horarios_ocupados(doctor_id, fecha)
         IN  HoraMinuto(SelectSeq(del_dia, Libre))

obtener_disponibilidad_doctor_validar(doctor_id, fecha) ==
    IF doctor_id \notin Doctores THEN "doctor_no_encontrado"
    ELSE IF DT(fecha, 0, 0) < DT(Dia(now), 0, 0) THEN "fechas_pasadas"
    ELSE "ok"

obtener_disponibilidad_doctor ==
    /\ rev = "app"
    /\ \E d \in DoctorIds, fecha \in Fechas :
         LET r == obtener_disponibilidad_doctor_validar(d, fecha) IN
           last' = [Resp("obtener_disponibilidad_doctor", Status(r), r, 0)
                      EXCEPT !.slots = IF r = "ok" THEN horarios_disponibles(d, fecha)
                                       ELSE <<>>]
    /\ UNCHANGED <<rev, inactivos, horarios_auto, now, horarios, dias_no_laborales, citas, reqs>>

----------------------------------------------------------------------------
(* Requests that interleave.  A handler reads (its checks, the conflict     *)
(* query among them) and later commits; nothing in the handlers or in the  *)
(* tables (Cita.__table_args__ holds plain indexes, no unique or exclusion *)
(* constraint, and no query locks rows) orders the read of one request     *)
(* and the commit of another.                                              *)

Req(n, op, paciente_id, doctor_id, fecha_hora, duracion_minutos, cita_id) ==
    [n |-> n, op |-> op, paciente_id |-> paciente_id, doctor_id |-> doctor_id,
     fecha_hora |-> fecha_hora, duracion_minutos |-> duracion_minutos,
     cita_id |-> cita_id]

LibreReq == CHOOSE n \in 1..(MaxReqs + 1) : \A q \in reqs : q.n # n

\* the starts and users of the interleaved requests
StartsConc == { DT(1, 10, 0), DT(1, 10, 15), DT(1, 10, 30) }
UsuariosConc == {"up1", "up2"}

\* crear_cita up to the end of validar_disponibilidad_doctor
crear_cita_leer ==
    /\ rev = "app"
    /\ Cardinality(reqs) < MaxReqs
    /\ \E u \in UsuariosConc, d \in Doctores, fh \in StartsConc :
         \E h \in first(HorariosDelDia(d, fh)) :
           LET r == crear_cita_validar(u, d, fh, h) IN
             IF r = "ok"
             THEN /\ reqs' = reqs \cup { Req(LibreReq, "crear", PacienteDe(u), d, fh,
                                            duracion_cita_minutos(d), 0) }
                  /\ last' = last
             ELSE /\ reqs' = reqs
                  /\ last' = Resp("crear_cita", Status(r), r, 0)
    /\ UNCHANGED <<rev, inactivos, horarios_auto, now, horarios, dias_no_laborales, citas>>

\* actualizar_cita up to the end of validar_disponibilidad_doctor
actualizar_cita_leer ==
    /\ rev = "app"
    /\ Cardinality(reqs) < MaxReqs
    /\ \E u \in UsuariosConc, id \in 1..MaxCitas, fh \in StartsConc :
         \E h \in first(HorariosDelDia(CitaDe(id).doctor_id, fh)) :
           LET r == actualizar_cita_validar(u, id, fh, h) IN
             IF r = "ok"
             THEN /\ reqs' = reqs \cup { Req(LibreReq, "actualizar", PacienteDe(u),
                                            CitaDe(id).doctor_id, fh,
                                            CitaDe(id).duracion_minutos, id) }
                  /\ last' = last
             ELSE /\ reqs' = reqs
                  /\ last' = Resp("actualizar_cita", Status(r), r, 0)
    /\ UNCHANGED <<rev, inactivos, horarios_auto, now, horarios, dias_no_laborales, citas>>

\* legacy crear_cita up to its conflict query
legacy_crear_cita_leer ==
    /\ rev = "legacy"
    /\ Cardinality(reqs) < MaxReqs
    /\ \E p \in Pacientes, d \in Doctores, fh \in StartsLegacy :
         LET r == legacy_crear_cita_validar(p, d, fh) IN
           IF r = "ok"
           THEN /\ reqs' = reqs \cup { Req(LibreReq, "crear", p, d, fh,
                                          DuracionLegacy, 0) }
                /\ last' = last
           ELSE /\ reqs' = reqs
                /\ last' = Resp("crear_cita", Status(r), r, 0)
    /\ UNCHANGED <<rev, inactivos, horarios_auto, now, horarios, dias_no_laborales, citas>>

\* legacy actualizar_cita, given a new start, up to its conflict query
legacy_actualizar_cita_leer ==
    /\ rev = "legacy"
    /\ Cardinality(reqs) < MaxReqs
    /\ \E id \in 1..MaxCitas, fh \in StartsLegacy :
         LET r == legacy_actualizar_cita_validar(id, fh) IN
           IF r = "ok"
           THEN /\ reqs' = reqs \cup { Req(LibreReq, "actualizar", CitaDe(id).paciente_id,
                                          CitaDe(id).doctor_id, fh,
                                          CitaDe(id).duracion_minutos, id) }
                /\ last' = last
           ELSE /\ reqs' = reqs
                /\ last' = Resp("actualizar_cita", Status(r), r, 0)
    /\ UNCHANGED <<rev, inactivos, horarios_auto, now, horarios, dias_no_laborales, citas>>

\* db.add / setattr followed by db.commit() of a request that has read
commit ==
    /\ \E q \in reqs :
         /\ reqs' = reqs \ {q}
         /\ IF q.op = "crear"
            THEN /\ Len(citas) < MaxCitas
                 /\ citas' = Append(citas, Cita(Len(citas) + 1, q.paciente_id,
                                                q.doctor_id, q.fecha_hora,
                                                q.duracion_minutos))
                 /\ last' = Resp("crear_cita", 201, "creada", Len(citas) + 1)
            ELSE /\ citas' = [citas EXCEPT ![q.cita_id].fecha_hora = q.fecha_hora]
                 /\ last' = Resp("actualizar_cita", 200, "ok", q.cita_id)
    /\ UNCHANGED <<rev, inactivos, horarios_auto, now, horarios, dias_no_laborales>>

\* a cancellation or completion in flight; estado is cita.estado as the
\* request has read it
ReqCiclo(n, op, usuario, cita_id) ==
    [n |-> n, op |-> op, usuario |-> usuario, cita_id |-> cita_id,
     estado |-> CitaDe(cita_id).estado]

\* the callers of the interleaved cancellations and completions
UsuariosCiclo == {"up1", "ud1"}

\* cancelar_cita up to the end of its checks
cancelar_cita_leer ==
    /\ rev = "app"
    /\ Cardinality(reqs) < MaxReqs
    /\ \E u \in UsuariosCiclo, id \in 1..MaxCitas :
         LET r == cancelar_cita_validar(u, id) IN
           IF r = "ok"
           THEN /\ reqs' = reqs \cup { ReqCiclo(LibreReq, "cancelar", u, id) }
                /\ last' = last
           ELSE /\ reqs' = reqs
                /\ last' = Resp("cancelar_cita", Status(r), r, 0)
    /\ UNCHANGED <<rev, inactivos, horarios_auto, now, horarios, dias_no_laborales, citas>>

\* completar_cita up to the end of its checks
completar_cita_leer ==
    /\ rev = "app"
    /\ Cardinality(reqs) < MaxReqs
    /\ \E u \in UsuariosCiclo, id \in 1..MaxCitas :
         LET r == completar_cita_validar(u, id) IN
           IF r = "ok"
           THEN /\ reqs' = reqs \cup { ReqCiclo(LibreReq, "completar", u, id) }
                /\ last' = last
           ELSE /\ reqs' = reqs
                /\ last' = Resp("completar_cita", Status(r), r, 0)
    /\ UNCHANGED <<rev, inactivos, horarios_auto, now, horarios, dias_no_laborales, citas>>

\* legacy cancelar_cita up to its query of the row
legacy_cancelar_cita_leer ==
    /\ rev = "legacy"
    /\ Cardinality(reqs) < MaxReqs
    /\ \E id \in 1..MaxCitas :
         LET r == legacy_cancelar_cita_validar(id) IN
           IF r = "sin_contenido"
           THEN /\ reqs' = reqs \cup { ReqCiclo(LibreReq, "cancelar", NULL, id) }
                /\ last' = last
           ELSE /\ reqs' = reqs
                /\ last' = Resp("cancelar_cita", Status(r), r, 0)
    /\ UNCHANGED <<rev, inactivos, horarios_auto, now, horarios, dias_no_laborales, citas>>

\* legacy completar_cita up to the end of its check of the state
legacy_completar_cita_leer ==
    /\ rev = "legacy"
    /\ Cardinality(reqs) < MaxReqs
    /\ \E id \in 1..MaxCitas :
         LET r == legacy_completar_cita_validar(id) IN
           IF r = "ok"
           THEN /\ reqs' = reqs \cup { ReqCiclo(LibreReq, "completar", NULL, id) }
                /\ last' = last
           ELSE /\ reqs' = reqs
                /\ last' = Resp("completar_cita", Status(r), r, 0)
    /\ UNCHANGED <<rev, inactivos, horarios_auto, now, horarios, dias_no_laborales, citas>>

\* the assignments and db.commit() of a cancellation or completion that has
\* passed its checks: the UPDATE writes the assigned columns of the row
commit_ciclo ==
    /\ \E q \in reqs :
         /\ reqs' = reqs \ {q}
         /\ IF q.op = "cancelar"
            THEN /\ citas' = IF rev = "app"
                             THEN [citas EXCEPT
                                     ![q.cita_id].estado = "CANCELADA",
                                     ![q.cita_id].motivo_cancelacion = "motivo_1",
                                     ![q.cita_id].cancelado_por_usuario_id = q.usuario,
                                     ![q.cita_id].fecha_cancelacion = now]
                             ELSE [citas EXCEPT ![q.cita_id].estado = "CANCELADA"]
                 /\ last' = Resp("cancelar_cita", IF rev = "app" THEN 200 ELSE 204,
                                 IF rev = "app" THEN "ok" ELSE "sin_contenido", 0)
            ELSE /\ citas' = IF rev = "app"
                             THEN [citas EXCEPT
                                     ![q.cita_id].estado = "COMPLETADA",
                                     ![q.cita_id].notas_doctor = "notas_1",
                                     ![q.cita_id].diagnostico = "diagnostico_1"]
                             ELSE [citas EXCEPT ![q.cita_id].estado = "COMPLETADA"]
                 /\ last' = Resp("completar_cita", 200, "ok", 0)
    /\ UNCHANGED <<rev, inactivos, horarios_auto, now, horarios, dias_no_laborales>>

----------------------------------------------------------------------------

\* the clock advances
Tick ==
    /\ \E t \in NowValues : t > now /\ now' = t
    /\ UNCHANGED <<rev, inactivos, horarios_auto, horarios, dias_no_laborales, citas, reqs, last>>

Init ==
    /\ rev \in {"app", "legacy"}
    /\ now = Lunes0800
    /\ inactivos = {}
    /\ horarios \in (IF rev = "app" THEN Calendarios ELSE {{}})
    /\ horarios_auto = Cardinality(horarios) + 1
    /\ dias_no_laborales \in (IF rev = "app" THEN Excepciones ELSE {{}})
    /\ citas \in (IF rev = "app" THEN {<<>>, <<CitaSembrada>>} ELSE {<<>>})
    /\ reqs = {}
    /\ last = NoResp

Next ==
    \/ crear_cita
    \/ actualizar_cita
    \/ cancelar_cita
    \/ completar_cita
    \/ cambiar_estado_cita
    \/ legacy_crear_cita
    \/ legacy_actualizar_cita
    \/ legacy_cancelar_cita
    \/ legacy_confirmar_cita
    \/ legacy_completar_cita
    \/ obtener_disponibilidad_doctor
    \/ Tick

Spec == Init /\ [][Next]_vars

\* the same program with the booking and reschedule requests interleaving
NextConc ==
    \/ crear_cita_leer
    \/ actualizar_cita_leer
    \/ legacy_crear_cita_leer
    \/ legacy_actualizar_cita_leer
    \/ commit

SpecConc == Init /\ [][NextConc]_vars

\* the bookings of the app revision next to the deactivation of accounts
NextCuentas ==
    \/ desactivar_usuario
    \/ crear_cita

SpecCuentas == Init /\ [][NextCuentas]_vars

\* bookings, and the cancellations and completions interleaving
NextCiclo ==
    \/ crear_cita
    \/ legacy_crear_cita
    \/ cancelar_cita_leer
    \/ completar_cita_leer
    \/ legacy_cancelar_cita_leer
    \/ legacy_completar_cita_leer
    \/ commit_ciclo

SpecCiclo == Init /\ [][NextCiclo]_vars

\* the requests of the horarios router
NextHorarios ==
    \/ crear_horario
    \/ actualizar_horario
    \/ eliminar_horario
    \/ toggle_horario
    \/ crear_horarios_bulk

SpecHorarios == Init /\ [][NextHorarios]_vars

----------------------------------------------------------------------------
(* Properties *)

Activa(c) == c.estado \in Activas

\* the half-open intervals of two rows overlap
Solapan(a, b) == a.fecha_hora < Fin(b) /\ b.fecha_hora < Fin(a)

SinSolapes ==
    \A i, j \in CitaIds :
        (i < j /\ citas[i].doctor_id = citas[j].doctor_id
               /\ Activa(citas[i]) /\ Activa(citas[j]))
        => ~Solapan(citas[i], citas[j])

\* C1: whatever booking, reschedule, confirm, cancel, complete and
\* change-state requests have been handled one at a time, no two PENDIENTE
\* or CONFIRMADA rows of one doctor have overlapping [start, start+duration)
C1_NoOverlap == SinSolapes

\* C1 for the app revision alone
C1_NoOverlapApp == rev = "app" => SinSolapes

\* C1 for the legacy revision, on equal starts alone (any positive duration)
C1_NoSameStartLegacy ==
    rev = "legacy" =>
        \A i, j \in CitaIds :
            (i < j /\ citas[i].doctor_id = citas[j].doctor_id
                   /\ Activa(citas[i]) /\ Activa(citas[j]))
            => citas[i].fecha_hora # citas[j].fecha_hora


\* C2: with the read and the commit of booking and reschedule requests as
\* separate steps that interleave, the app revision never holds two
\* PENDIENTE or CONFIRMADA rows of one doctor with overlapping intervals
C2_NoOverlapConcurrent ==
    rev = "app" =>
        \A i, j \in CitaIds :
            (i # j /\ citas[i].doctor_id = citas[j].doctor_id
                   /\ Activa(citas[i]) /\ Activa(citas[j]))
            => (Fin(citas[i]) <= citas[j].fecha_hora
                \/ Fin(citas[j]) <= citas[i].fecha_hora)

\* C3: of two concurrent bookings of the same doctor, start and duration at
\* most one persists a row (the other is rejected and persists nothing)
C3_ExactlyOneSucceeds ==
    rev = "app" =>
        \A i, j \in CitaIds :
            (i < j /\ citas[i].doctor_id = citas[j].doctor_id
                   /\ citas[i].fecha_hora = citas[j].fecha_hora
                   /\ citas[i].duracion_minutos = citas[j].duracion_minutos)
            => ~(citas[i].estado = "PENDIENTE" /\ citas[j].estado = "PENDIENTE")


----------------------------------------------------------------------------
(* The outcomes of the handlers, by the kinds of the specification *)

Kind(detail) ==
    CASE detail \in {"ok", "creada", "sin_contenido"} -> "Ok"
      [] detail \in {"fecha_futura", "antelacion_minima", "antelacion_maxima",
                     "fechas_pasadas", "fecha_futura_legacy"} -> "LeadTimeViolation"
      [] detail \in {"no_atiende", "fuera_de_horario"} -> "OutOfAvailability"
      [] detail \in {"cita_programada", "cita_agendada"} -> "SlotTaken"
      [] detail \in {"doctor_no_encontrado", "paciente_no_encontrado",
                     "cita_no_encontrada"} -> "NotFound"
      [] detail \in {"solo_pacientes", "solo_doctores", "no_puedes_cancelar",
                     "usuario_inactivo", "no_tienes_permiso"} -> "Forbidden"
      [] detail = "AttributeError" -> "ServerError"
      [] OTHER -> "InvalidState"

\* some PENDIENTE or CONFIRMADA row of the doctor overlaps [a0, a1)
Conflicto(doctor_id, a0, a1) ==
    \E i \in CitaIds : /\ citas[i].doctor_id = doctor_id
                       /\ Activa(citas[i])
                       /\ a0 < Fin(citas[i])
                       /\ citas[i].fecha_hora < a1

Terminada(c) ==
    c.estado \in {"COMPLETADA", "CANCELADA", "CANCELADA_PACIENTE", "CANCELADA_DOCTOR"}

\* some COMPLETADA or cancelled row of the doctor overlaps [a0, a1)
SolapaTerminada(doctor_id, a0, a1) ==
    \E i \in CitaIds : /\ citas[i].doctor_id = doctor_id
                       /\ Terminada(citas[i])
                       /\ a0 < Fin(citas[i])
                       /\ citas[i].fecha_hora < a1

\* C4 for the app revision alone: once the earlier checks pass, crear_cita
\* rejects for conflict exactly when an active row overlaps the request
C4_HalfOpenApp ==
    rev = "app" =>
        \A u \in Usuarios, d \in Doctores, fh \in Starts :
            \A h \in first(HorariosDelDia(d, fh)) :
                LET r == crear_cita_validar(u, d, fh, h) IN
                    r \in {"ok", "cita_programada"} =>
                        (r = "cita_programada"
                            <=> Conflicto(d, fh, fh + duracion_cita_minutos(d)))

\* C4: the conflict check of a booking rejects the candidate [a0, a1)
\* exactly when some PENDIENTE or CONFIRMADA row [b0, b1) of the doctor has
\* a0 < b1 and b0 < a1
C4_ConflictCheckHalfOpen ==
    /\ C4_HalfOpenApp
    /\ rev = "legacy" =>
        \A p \in Pacientes, d \in Doctores, fh \in StartsLegacy :
            LET r == legacy_crear_cita_validar(p, d, fh) IN
                r \in {"ok", "cita_agendada"} =>
                    (r = "cita_agendada" <=> Conflicto(d, fh, fh + DuracionLegacy))

\* C5: a booking whose interval overlaps a COMPLETADA or cancelled row of
\* the doctor and no PENDIENTE or CONFIRMADA one, and that passes the other
\* checks, is accepted; and the listing of the date still offers the start
\* of such a row
C5_TerminatedDoNotBlock ==
    /\ rev = "app" =>
        \A u \in Usuarios, d \in Doctores, fh \in Starts :
            \A h \in first(HorariosDelDia(d, fh)) :
                LET r == crear_cita_validar(u, d, fh, h)
                    fin == fh + duracion_cita_minutos(d)
                IN  (/\ SolapaTerminada(d, fh, fin)
                     /\ ~Conflicto(d, fh, fin)
                     /\ r \in {"ok", "cita_programada"}) => r = "ok"
    /\ rev = "legacy" =>
        \A p \in Pacientes, d \in Doctores, fh \in StartsLegacy :
            LET r == legacy_crear_cita_validar(p, d, fh)
                fin == fh + DuracionLegacy
            IN  (/\ SolapaTerminada(d, fh, fin)
                 /\ ~Conflicto(d, fh, fin)
                 /\ r \in {"ok", "cita_agendada"}) => r = "ok"
    /\ rev = "app" =>
        \A d \in Doctores, fecha \in Fechas, i \in CitaIds :
            (/\ citas[i].doctor_id = d
             /\ Terminada(citas[i])
             /\ Dia(citas[i].fecha_hora) = fecha /\ fecha # Dia(now)
             /\ \E k \in 1..Len(generar_horarios_del_dia(fecha)) :
                    generar_horarios_del_dia(fecha)[k] = citas[i].fecha_hora
             /\ ~Conflicto(d, citas[i].fecha_hora, citas[i].fecha_hora + 1))
                => \E k \in 1..Len(horarios_disponibles(d, fecha)) :
                       horarios_disponibles(d, fecha)[k] = Hora(citas[i].fecha_hora)

\* C5 witness: the app revision has just accepted a booking that overlaps a
\* COMPLETADA row of the same doctor
C5_Witness ==
    /\ rev = "app"
    /\ last.op = "crear_cita" /\ last.status = 201
    /\ last.cita_id \in CitaIds
    /\ \E i \in CitaIds :
         /\ i # last.cita_id
         /\ citas[i].doctor_id = citas[last.cita_id].doctor_id
         /\ Terminada(citas[i])
         /\ Solapan(citas[i], citas[last.cita_id])


\* the minimum lead time each revision applies when it books
MinLeadTime == IF rev = "app" THEN ANTELACION_MINIMA ELSE 0

\* C6: a booking of an existing doctor whose start is not later than now
\* plus the minimum lead time is rejected for its date
C6_LeadTimeDecision ==
    /\ rev = "app" =>
        \A u \in Usuarios, d \in Doctores, fh \in Starts :
            \A h \in first(HorariosDelDia(d, fh)) :
                fh <= now + MinLeadTime
                    => Kind(crear_cita_validar(u, d, fh, h)) = "LeadTimeViolation"
    /\ rev = "legacy" =>
        \A p \in Pacientes, d \in Doctores, fh \in StartsLegacy :
            fh <= now + MinLeadTime
                => Kind(legacy_crear_cita_validar(p, d, fh)) = "LeadTimeViolation"

\* C6: ... and no step persists a row whose start is within the lead time
C6_LeadTimePersist ==
    Len(citas') > Len(citas)
        => citas'[Len(citas')].fecha_hora > now + MinLeadTime

C7_RescheduleLeadTime ==
    /\ rev = "app" =>
        \A u \in Usuarios, id \in CitaIds, fh \in Starts :
            \A h \in first(HorariosDelDia(citas[id].doctor_id, fh)) :
                (/\ tipo_usuario(u) = "PACIENTE"
                 /\ citas[id].paciente_id = PacienteDe(u)
                 /\ Activa(citas[id])
                 /\ fh <= now + MinLeadTime)
                    => Kind(actualizar_cita_validar(u, id, fh, h)) = "LeadTimeViolation"
    /\ rev = "legacy" =>
        \A id \in CitaIds, fh \in StartsLegacy :
            (Activa(citas[id]) /\ fh <= now + MinLeadTime)
                => Kind(legacy_actualizar_cita_validar(id, fh)) = "LeadTimeViolation"

\* C7 for the date checks of the two app operations alone: a start that
\* CitaCreate refuses for its lead time is refused by CitaUpdate and
\* validar_disponibilidad_doctor, the only date checks of a reschedule
C7_SameLeadTimeApp ==
    rev = "app" =>
        \A d \in Doctores, fh \in Starts :
            \A h \in first(HorariosDelDia(d, fh)) :
                CitaCreate_validar(fh) \in {"fecha_futura", "antelacion_minima"}
                    => \/ CitaUpdate_validar(fh) # "ok"
                       \/ validar_disponibilidad_doctor(citas, d, fh,
                              duracion_cita_minutos(d), 0, h) = "fechas_pasadas"


\* isAvailable of the calendar: some active rule of the doctor for the
\* weekday of t contains the time of t, and the date of t is no exception
isAvailable(doctor_id, t) ==
    /\ \E h \in horarios : /\ h.doctor_id = doctor_id
                           /\ h.activo
                           /\ h.dia_semana = DiaSemanaEnum[Weekday(t) + 1]
                           /\ h.hora_inicio <= Hora(t)
                           /\ Hora(t) < h.hora_fin
    /\ DiaNoLaboral(doctor_id, Dia(t)) \notin dias_no_laborales

\* C8: once the date checks pass, a booking is rejected for availability
\* exactly when isAvailable is false at its start, with several rules on the
\* weekday and with exception dates
C8_AvailabilityCheck ==
    rev = "app" =>
        \A u \in Usuarios, d \in Doctores, fh \in Starts :
            \A h \in first(HorariosDelDia(d, fh)) :
                LET r == crear_cita_validar(u, d, fh, h) IN
                    Kind(r) \in {"Ok", "SlotTaken", "OutOfAvailability"} =>
                        (Kind(r) = "OutOfAvailability" <=> ~isAvailable(d, fh))

\* C8 for the exception dates alone: no accepted booking starts on an
\* exception date of its doctor
C8_NoBookingOnException ==
    \A i \in CitaIds :
        (rev = "app" /\ last.op = "crear_cita" /\ last.cita_id = i)
            => DiaNoLaboral(citas[i].doctor_id, Dia(citas[i].fecha_hora))
                   \notin dias_no_laborales

\* C8 for the rules alone: a start inside an active rule of its weekday is
\* never rejected as outside the doctor's hours
C8_EveryRuleCounts ==
    rev = "app" =>
        \A u \in Usuarios, d \in Doctores, fh \in Starts :
            \A h \in first(HorariosDelDia(d, fh)) :
                (\E k \in HorariosDelDia(d, fh) :
                     k.hora_inicio <= Hora(fh) /\ Hora(fh) < k.hora_fin)
                    => crear_cita_validar(u, d, fh, h) # "fuera_de_horario"

\* C9: the slot listing of a doctor for one of the doctor's exception dates
\* is empty
C9_ExceptionDateEmpty ==
    rev = "app" =>
        \A d \in Doctores, fecha \in Fechas :
            (DiaNoLaboral(d, fecha) \in dias_no_laborales
             /\ obtener_disponibilidad_doctor_validar(d, fecha) = "ok")
                => horarios_disponibles(d, fecha) = <<>>

\* the starts rule.start + k * duracion that fit in the rule
SlotsDeRegla(h, duracion) ==
    { h.hora_inicio + k * duracion : k \in 0..((h.hora_fin - h.hora_inicio) \div duracion) }
        \ { s \in 0..MinutosDia : s + duracion > h.hora_fin }

\* the reference listing of a date: the slots of the active rules of the
\* weekday, none on an exception date, those after now + lead only
SlotsReferencia(doctor_id, fecha, duracion, lead) ==
    IF DiaNoLaboral(doctor_id, fecha) \in dias_no_laborales THEN {}
    ELSE { s \in UNION { SlotsDeRegla(h, duracion) :
                           h \in HorariosDelDia(doctor_id, DT(fecha, 0, 0)) } :
             DT(fecha, 0, 0) + s > now + lead }

RECURSIVE Ordenados(_)
Ordenados(S) ==
    IF S = {} THEN <<>>
    ELSE LET m == CHOOSE x \in S : \A y \in S : x <= y
         IN  <<m>> \o Ordenados(S \ {m})

\* C10: for a doctor with no bookings on the date, the listing is the slots
\* rule.start + k * duration of the doctor's active rules of the weekday,
\* in time order, with the lead time of the listing
C10_ListingFromCalendar ==
    rev = "app" =>
        \A d \in Doctores, fecha \in Fechas :
            (/\ obtener_disponibilidad_doctor_validar(d, fecha) = "ok"
             /\ \A i \in CitaIds : citas[i].doctor_id = d
                                     => Dia(citas[i].fecha_hora) # fecha)
                => horarios_disponibles(d, fecha)
                     = HoraMinuto(Ordenados(SlotsReferencia(d, fecha,
                                      duracion_cita_minutos(d), ANTICIPACION)))


\* C11: every start the listing of a date returns is such that
\* [start, start + DURACION_CITA) overlaps no PENDIENTE or CONFIRMADA row of
\* the doctor
C11_ListingAvoidsBookings ==
    rev = "app" =>
        \A d \in Doctores, fecha \in Fechas :
            obtener_disponibilidad_doctor_validar(d, fecha) = "ok" =>
                \A k \in 1..Len(horarios_disponibles(d, fecha)) :
                    LET start == DT(fecha, 0, 0) + horarios_disponibles(d, fecha)[k]
                    IN  ~Conflicto(d, start, start + DURACION_CITA)

\* C11 for the starts alone: no start the listing returns is the start of a
\* PENDIENTE or CONFIRMADA row of the doctor
C11_ListingAvoidsStarts ==
    rev = "app" =>
        \A d \in Doctores, fecha \in Fechas, i \in CitaIds :
            (/\ obtener_disponibilidad_doctor_validar(d, fecha) = "ok"
             /\ citas[i].doctor_id = d /\ Activa(citas[i])
             /\ Dia(citas[i].fecha_hora) = fecha)
                => \A k \in 1..Len(horarios_disponibles(d, fecha)) :
                       horarios_disponibles(d, fecha)[k] # Hora(citas[i].fecha_hora)


----------------------------------------------------------------------------
(* The lifecycle of an appointment *)

\* the user is the doctor, or the patient, of the row
EsDoctorDe(u, c) == tipo_usuario(u) = "DOCTOR" /\ DoctorDe(u) = c.doctor_id
EsPacienteDe(u, c) == tipo_usuario(u) = "PACIENTE" /\ PacienteDe(u) = c.paciente_id
EsParteDe(u, c) == EsDoctorDe(u, c) \/ EsPacienteDe(u, c)

\* C12: a confirmation of an appointment that is CONFIRMADA, COMPLETADA or
\* cancelled, asked by its doctor, is rejected as an invalid state
C12_ConfirmOnlyPending ==
    /\ rev = "app" =>
        \A u \in Usuarios, id \in CitaIds :
            (/\ EsDoctorDe(u, citas[id])
             /\ (citas[id].estado = "CONFIRMADA" \/ Terminada(citas[id])))
                => Kind(cambiar_estado_cita_validar(u, id, "CONFIRMADA")) = "InvalidState"
    /\ rev = "legacy" =>
        \A id \in CitaIds :
            (citas[id].estado = "CONFIRMADA" \/ Terminada(citas[id]))
                => Kind(legacy_confirmar_cita_validar(id)) = "InvalidState"

\* C12 for the rows alone: a confirmation changes nothing but the state of
\* a PENDIENTE row, to CONFIRMADA
C12_ConfirmFromPending ==
    [][last'.op \in {"confirmar_cita", "cambiar_estado_cita"} =>
         \A i \in CitaIds :
             citas'[i] # citas[i] =>
                 /\ citas[i].estado = "PENDIENTE"
                 /\ citas'[i] = [citas[i] EXCEPT !.estado = "CONFIRMADA"]]_vars

\* C13: a cancellation of an appointment that is COMPLETADA or cancelled,
\* asked by its patient or its doctor, is rejected as an invalid state
C13_CancelTerminalRejected ==
    /\ rev = "app" =>
        \A u \in Usuarios, id \in CitaIds :
            (EsParteDe(u, citas[id]) /\ Terminada(citas[id]))
                => Kind(cancelar_cita_validar(u, id)) = "InvalidState"
    /\ rev = "legacy" =>
        \A id \in CitaIds :
            Terminada(citas[id])
                => Kind(legacy_cancelar_cita_validar(id)) = "InvalidState"

\* C13 for the rows alone: a cancellation leaves a COMPLETADA or cancelled
\* row as it is
C13_CancelLeavesTerminal ==
    [][last'.op = "cancelar_cita" =>
         \A i \in CitaIds : Terminada(citas[i]) => citas'[i] = citas[i]]_vars

\* C14: the completion of an appointment that is COMPLETADA or cancelled,
\* asked by its doctor, is rejected as an invalid state
C14_CompleteTerminalRejected ==
    /\ rev = "app" =>
        \A u \in Usuarios, id \in CitaIds :
            (EsDoctorDe(u, citas[id]) /\ Terminada(citas[id]))
                => Kind(completar_cita_validar(u, id)) = "InvalidState"
    /\ rev = "legacy" =>
        \A id \in CitaIds :
            Terminada(citas[id])
                => Kind(legacy_completar_cita_validar(id)) = "InvalidState"

\* C14 for the rows alone: a completion leaves a COMPLETADA or
\* cancelled row as it is
C14_CompleteLeavesTerminal ==
    [][last'.op = "completar_cita" =>
         \A i \in CitaIds : Terminada(citas[i]) => citas'[i] = citas[i]]_vars


\* C15: once a row is COMPLETADA or cancelled, no step changes its state
C15_TerminalStatesFinal ==
    [][\A i \in CitaIds :
          Terminada(citas[i]) => citas'[i].estado = citas[i].estado]_vars

\* C15 for the app revision alone
C15_TerminalStatesFinalApp ==
    [][rev = "app" =>
         \A i \in CitaIds :
             Terminada(citas[i]) => citas'[i].estado = citas[i].estado]_vars

\* C16: the cancellation of a PENDIENTE or CONFIRMADA appointment, asked by
\* its patient or its doctor, succeeds
C16_CancelActiveSucceeds ==
    /\ rev = "app" =>
        \A u \in Usuarios, id \in CitaIds :
            (EsParteDe(u, citas[id]) /\ Activa(citas[id]))
                => Kind(cancelar_cita_validar(u, id)) = "Ok"
    /\ rev = "legacy" =>
        \A id \in CitaIds :
            Activa(citas[id]) => Kind(legacy_cancelar_cita_validar(id)) = "Ok"

Cancelada(c) ==
    c.estado \in {"CANCELADA", "CANCELADA_PACIENTE", "CANCELADA_DOCTOR"}

\* C17: every cancelled row carries the reason, the user and the time of
\* its cancellation
C17_CancelledHasMetadata ==
    \A i \in CitaIds :
        Cancelada(citas[i]) =>
            /\ citas[i].motivo_cancelacion # NULL
            /\ citas[i].cancelado_por_usuario_id # NULL
            /\ citas[i].fecha_cancelacion # NoFecha

\* C18: every COMPLETADA row carries the doctor's notes and the diagnosis
C18_CompletedHasOutcome ==
    \A i \in CitaIds :
        citas[i].estado = "COMPLETADA" =>
            /\ citas[i].notas_doctor # NULL
            /\ citas[i].diagnostico # NULL

\* C19 for the app revision alone: the confirmation of a PENDIENTE row and
\* the completion of a PENDIENTE or CONFIRMADA one, asked by a user who is
\* not the doctor of the row, are rejected as forbidden or not found
C19_OnlyOwnDoctorApp ==
    rev = "app" =>
        \A u \in Usuarios, id \in CitaIds :
            (~EsDoctorDe(u, citas[id]) /\ Activa(citas[id])) =>
                /\ Kind(cambiar_estado_cita_validar(u, id, "CONFIRMADA"))
                       \in {"Forbidden", "NotFound"}
                /\ Kind(completar_cita_validar(u, id)) \in {"Forbidden", "NotFound"}

\* C19: a confirmation or a completion asked by a patient, or by a doctor
\* who is not the doctor of the appointment, is rejected as forbidden or
\* not found
C19_OnlyOwnDoctor ==
    /\ C19_OnlyOwnDoctorApp
    /\ rev = "legacy" =>
        \A u \in Usuarios, id \in CitaIds :
            ~EsDoctorDe(u, citas[id]) =>
                /\ citas[id].estado = "PENDIENTE" =>
                       Kind(legacy_confirmar_cita_validar(id))
                           \in {"Forbidden", "NotFound"}
                /\ Activa(citas[id]) =>
                       Kind(legacy_completar_cita_validar(id))
                           \in {"Forbidden", "NotFound"}

\* C20 for the app revision alone: a cancellation asked by a patient or a
\* doctor who is no party to the appointment is rejected as forbidden
C20_OnlyPartiesCancelApp ==
    rev = "app" =>
        \A u \in Usuarios, id \in CitaIds :
            ~EsParteDe(u, citas[id])
                => Kind(cancelar_cita_validar(u, id)) = "Forbidden"

\* C20: a cancellation asked by a patient or a doctor who is no party to
\* the appointment is rejected as forbidden
C20_OnlyPartiesCancel ==
    /\ C20_OnlyPartiesCancelApp
    /\ rev = "legacy" =>
        \A u \in Usuarios, id \in CitaIds :
            ~EsParteDe(u, citas[id])
                => Kind(legacy_cancelar_cita_validar(id)) = "Forbidden"


----------------------------------------------------------------------------

\* some PENDIENTE or CONFIRMADA row of the doctor other than cita_id
\* overlaps [a0, a1)
ConflictoOtros(doctor_id, a0, a1, cita_id) ==
    \E i \in CitaIds : /\ i # cita_id
                       /\ citas[i].doctor_id = doctor_id
                       /\ Activa(citas[i])
                       /\ a0 < Fin(citas[i])
                       /\ citas[i].fecha_hora < a1

\* C21 for the conflict query of the app revision alone: with the row's own
\* id excluded and the earlier checks passing, validar_disponibilidad_doctor
\* refuses a new start for a conflict exactly when another active row of
\* the doctor overlaps the moved interval
C21_ExcludesOwnApp ==
    rev = "app" =>
        \A id \in CitaIds, fh \in Starts :
            \A h \in first(HorariosDelDia(citas[id].doctor_id, fh)) :
                LET c == citas[id] IN
                validar_disponibilidad_doctor(<<>>, c.doctor_id, fh,
                                              c.duracion_minutos, id, h) = "ok"
                    => validar_disponibilidad_doctor(citas, c.doctor_id, fh,
                                                     c.duracion_minutos, id, h)
                         = IF ConflictoOtros(c.doctor_id, fh,
                                             fh + c.duracion_minutos, id)
                           THEN "cita_programada" ELSE "ok"

\* C21: a reschedule of an active appointment by its patient to another
\* start that passes the date and availability checks is rejected as
\* SlotTaken when the moved interval overlaps another active appointment of
\* the doctor and is accepted otherwise, its own interval not counting
C21_RescheduleExcludesOwn ==
    /\ rev = "app" =>
        \A u \in Usuarios, id \in CitaIds, fh \in Starts :
            \A h \in first(HorariosDelDia(citas[id].doctor_id, fh)) :
                LET c == citas[id] IN
                (/\ EsPacienteDe(u, c)
                 /\ Activa(c)
                 /\ fh # c.fecha_hora
                 /\ CitaUpdate_validar(fh) = "ok"
                 /\ validar_disponibilidad_doctor(<<>>, c.doctor_id, fh,
                                                  c.duracion_minutos, id, h) = "ok")
                    => Kind(actualizar_cita_validar(u, id, fh, h))
                         = IF ConflictoOtros(c.doctor_id, fh,
                                             fh + c.duracion_minutos, id)
                           THEN "SlotTaken" ELSE "Ok"
    /\ rev = "legacy" =>
        \A id \in CitaIds, fh \in StartsLegacy :
            LET c == citas[id] IN
            (Activa(c) /\ fh # c.fecha_hora /\ fh > now)
                => Kind(legacy_actualizar_cita_validar(id, fh))
                     = IF ConflictoOtros(c.doctor_id, fh,
                                         fh + c.duracion_minutos, id)
                       THEN "SlotTaken" ELSE "Ok"

----------------------------------------------------------------------------

\* the row c with another start and, for the legacy PATCH that carries an
\* estado as well, another state: every other field as in c
MismaCita(c, d) == d = [c EXCEPT !.fecha_hora = d.fecha_hora, !.estado = d.estado]

\* a legacy PATCH that carries a new start and no other field moves the
\* start of the row and nothing else
C22_SoloFechaHora ==
    rev = "legacy" =>
        \A id \in CitaIds, fh \in StartsLegacy :
            aplicar_actualizaciones(citas[id], fh, NULL)
                = [citas[id] EXCEPT !.fecha_hora = fh]

\* a step of actualizar_cita keeps the number of rows and, in each row,
\* every field but the start (and the state, for a legacy PATCH with an
\* estado); a rejected one leaves the table as it was
C22_Marco ==
    last'.op = "actualizar_cita" =>
        /\ Len(citas') = Len(citas)
        /\ \A i \in CitaIds : MismaCita(citas[i], citas'[i])
        /\ rev = "app" => \A i \in CitaIds : citas'[i].estado = citas[i].estado
        /\ \A i \in CitaIds : i # last'.cita_id => citas'[i] = citas[i]
        /\ last'.status # 200 => citas' = citas

----------------------------------------------------------------------------

\* the row crear_cita builds for an accepted request: the requested doctor
\* and start, the patient of the caller, the doctor's duration, PENDIENTE,
\* no outcome and no cancellation fields, and an id no stored row has
C23_FilaPedida ==
    rev = "app" =>
        \A u \in Usuarios, d \in DoctorIds, fh \in Starts :
            \A h \in first(HorariosDelDia(d, fh)) :
                crear_cita_validar(u, d, fh, h) = "ok" =>
                    LET c == nueva_cita(u, d, fh) IN
                        /\ c.doctor_id = d
                        /\ c.paciente_id = PacienteDe(u)
                        /\ c.fecha_hora = fh
                        /\ c.duracion_minutos = duracion_cita_minutos(d)
                        /\ c.estado = "PENDIENTE"
                        /\ c.notas_doctor = NULL /\ c.diagnostico = NULL
                        /\ c.motivo_cancelacion = NULL
                        /\ c.cancelado_por_usuario_id = NULL
                        /\ c.fecha_cancelacion = NoFecha
                        /\ \A i \in CitaIds : citas[i].id # c.id

\* a step that leaves the answer of crear_cita: a new answer 201 comes with
\* one appended PENDIENTE row, the one whose id it returns, and with no
\* other change of the table; a rejection, and only a rejection, comes with
\* the table as it was
C23_UnaONinguna ==
    last'.op = "crear_cita" =>
        /\ (last'.status = 201 /\ last' # last) =>
              /\ Len(citas') = Len(citas) + 1
              /\ SubSeq(citas', 1, Len(citas)) = citas
              /\ citas'[Len(citas')].id = last'.cita_id
              /\ citas'[Len(citas')].estado = "PENDIENTE"
              /\ \A i \in CitaIds : citas[i].id # last'.cita_id
        /\ last'.status # 201 => (citas' = citas /\ last'.cita_id = 0)
        /\ citas' # citas => (last'.status = 201 /\ last' # last)

\* C23: a booking request either persists exactly one new PENDIENTE
\* appointment with the requested doctor, the requesting patient, the
\* requested start and a new id, or persists nothing and answers a rejection
C23_BookingAllOrNothing == [](C23_FilaPedida) /\ [][C23_UnaONinguna]_vars

\* a second booking accepted, and stored as PENDIENTE under the returned id
C23_Witness ==
    /\ rev = "app"
    /\ last.op = "crear_cita"
    /\ last.status = 201
    /\ last.cita_id = 2
    /\ Len(citas) = 2
    /\ citas[2].estado = "PENDIENTE"
    /\ citas[2].id = 2

----------------------------------------------------------------------------

\* the ids of the stored rows
Ids(tabla) == { tabla[i].id : i \in 1..Len(tabla) }

\* every row is stored under its own id
C24_IdsPropios == \A i \in CitaIds : citas[i].id = i

\* no step removes a row or changes the id of one
C24_NadaSeBorra ==
    /\ Ids(citas) \subseteq Ids(citas')
    /\ Len(citas') >= Len(citas)
    /\ \A i \in CitaIds : citas'[i].id = citas[i].id

\* C24: appointments are never deleted: the set of appointment ids only
\* grows, and a cancellation changes the state of the record and keeps it
C24_NeverDeleted == [](C24_IdsPropios) /\ [][C24_NadaSeBorra]_vars

\* a cancellation has been answered and the cancelled row is still stored,
\* next to another row
C24_Witness ==
    /\ last.op = "cancelar_cita"
    /\ last.status = 204
    /\ Len(citas) = 2
    /\ citas[1].estado = "CANCELADA"
    /\ citas[2].estado = "PENDIENTE"

----------------------------------------------------------------------------

\* the kind of the first check a booking of the app revision violates, the
\* checks taken in the order: the doctor exists, the lead time and the
\* horizon, the weekly availability, the conflict
PrimeraViolacion(doctor_id, fecha_hora, horario) ==
    IF doctor_id \notin Doctores THEN "NotFound"
    ELSE IF CitaCreate_validar(fecha_hora) # "ok" THEN "LeadTimeViolation"
    ELSE IF validar_disponibilidad_doctor(<<>>, doctor_id, fecha_hora,
                duracion_cita_minutos(doctor_id), 0, horario) # "ok"
         THEN "OutOfAvailability"
    ELSE IF Conflicto(doctor_id, fecha_hora,
                      fecha_hora + duracion_cita_minutos(doctor_id))
         THEN "SlotTaken"
    ELSE "Ok"

\* the same for the legacy revision, whose checks are: the doctor exists,
\* the start is in the future, no active row of the doctor has the start
PrimeraViolacionLegacy(doctor_id, fecha_hora) ==
    IF doctor_id \notin Doctores THEN "NotFound"
    ELSE IF fecha_hora <= now THEN "LeadTimeViolation"
    ELSE IF legacy_cita_existente(citas, doctor_id, fecha_hora, 0) THEN "SlotTaken"
    ELSE "Ok"

\* C25: a booking by a patient that violates several checks is rejected for
\* the first violated one in the order: doctor exists, lead time, horizon,
\* weekly availability, conflict
C25_FirstViolationWins ==
    /\ rev = "app" =>
        \A u \in Usuarios, d \in DoctorIds, fh \in Starts :
            \A h \in first(HorariosDelDia(d, fh)) :
                tipo_usuario(u) = "PACIENTE"
                    => Kind(crear_cita_validar(u, d, fh, h)) = PrimeraViolacion(d, fh, h)
    /\ rev = "legacy" =>
        \A p \in Pacientes, d \in DoctorIdsLegacy, fh \in StartsLegacy :
            Kind(legacy_crear_cita_validar(p, d, fh)) = PrimeraViolacionLegacy(d, fh)

----------------------------------------------------------------------------

\* C26: a booking for a doctor that exists and whose account is not active
\* is rejected
C26_InactiveDoctorRejected ==
    rev = "app" =>
        \A u \in Usuarios, d \in Doctores, fh \in Starts :
            \A h \in first(HorariosDelDia(d, fh)) :
                UsuarioDe(d) \in inactivos
                    => Kind(crear_cita_validar(u, d, fh, h)) # "Ok"

\* C26, the table: no stored appointment is PENDIENTE with a doctor whose
\* account is not active
C26_NoBookingWithInactive ==
    \A i \in CitaIds :
        (citas[i].estado = "PENDIENTE" /\ last.op = "crear_cita" /\ last.cita_id = i)
            => UsuarioDe(citas[i].doctor_id) \notin inactivos

----------------------------------------------------------------------------

\* every stored rule starts before it ends
C27_ReglasValidas == \A h \in horarios : h.hora_inicio < h.hora_fin

\* a create, an update or a bulk create whose start is not before its end
\* is rejected
C27_RechazaInvalidas ==
    rev = "app" =>
        /\ \A d \in Doctores, hi \in HorasPedidas, hf \in HorasPedidas :
              hi >= hf => crear_horario_validar(d, "MARTES", hi, hf) = "hora_inicio_menor"
        /\ \A h \in horarios, hi \in HorasPedidas, hf \in HorasPedidas :
              hi >= hf => actualizar_horario_validar(h.id, "MARTES", hi, hf)
                              = "hora_inicio_menor"
        /\ \A d \in Doctores, lista \in ListasBulk :
              (\E k \in 1..Len(lista) : lista[k].hora_inicio >= lista[k].hora_fin)
                  => crear_horarios_bulk_validar(d, lista) = "horario_invalido"

\* a rejected request of the horarios router leaves the table as it was
C27_RechazoSinCambio ==
    (last'.op \in {"crear_horario", "actualizar_horario", "crear_horarios_bulk"}
        /\ last'.status >= 400) => horarios' = horarios

\* C27: after any create, bulk create, update, toggle or delete of weekly
\* rules every stored rule has its start before its end, and a create, bulk
\* create or update with a start not before its end is rejected
C27_RulesStartBeforeEnd ==
    [](C27_ReglasValidas /\ C27_RechazaInvalidas) /\ [][C27_RechazoSinCambio]_vars

\* a create with its start not before its end has been rejected, after a
\* rule was created and another updated
C27_Witness ==
    /\ last.op = "crear_horario"
    /\ last.detail = "hora_inicio_menor"
    /\ \E h \in horarios : h.id = 6
    /\ \E h \in horarios : h.id = 2 /\ h.hora_fin = HM(10, 0)

\* C28: no doctor has two rules on the same weekday whose windows overlap
C28_NoOverlappingRules ==
    \A g \in horarios, h \in horarios :
        (g.id # h.id /\ g.doctor_id = h.doctor_id /\ g.dia_semana = h.dia_semana)
            => ~(g.hora_inicio < h.hora_fin /\ h.hora_inicio < g.hora_fin)

----------------------------------------------------------------------------

\* C29: every start the listing of a date returns for a doctor is accepted
\* by a booking of a patient for that doctor at the same now: it is not
\* rejected for its lead time, for availability or for a conflict
C29_ListedSlotsBookable ==
    rev = "app" =>
        \A u \in Usuarios, d \in Doctores, fecha \in Fechas :
            (/\ tipo_usuario(u) = "PACIENTE"
             /\ get_current_user(u) = "ok"
             /\ obtener_disponibilidad_doctor_validar(d, fecha) = "ok") =>
                \A k \in 1..Len(horarios_disponibles(d, fecha)) :
                    LET start == DT(fecha, 0, 0) + horarios_disponibles(d, fecha)[k]
                    IN  \A h \in first(HorariosDelDia(d, start)) :
                            Kind(crear_cita_validar(u, d, start, h)) = "Ok"

\* C29 for the lead time alone: no listed start is rejected by a booking
\* for its lead time
C29_ListedSlotsLeadTime ==
    rev = "app" =>
        \A d \in Doctores, fecha \in Fechas :
            obtener_disponibilidad_doctor_validar(d, fecha) = "ok" =>
                \A k \in 1..Len(horarios_disponibles(d, fecha)) :
                    CitaCreate_validar(DT(fecha, 0, 0)
                                       + horarios_disponibles(d, fecha)[k]) = "ok"

----------------------------------------------------------------------------

\* no row is COMPLETADA with cancellation fields or cancelled with the
\* fields of a consultation
C30_SinMezcla ==
    \A i \in CitaIds :
        /\ citas[i].estado = "COMPLETADA" =>
              /\ citas[i].motivo_cancelacion = NULL
              /\ citas[i].cancelado_por_usuario_id = NULL
              /\ citas[i].fecha_cancelacion = NoFecha
        /\ Cancelada(citas[i]) =>
              (citas[i].notas_doctor = NULL /\ citas[i].diagnostico = NULL)

\* of a cancellation and a completion that have both read the row as
\* PENDIENTE or CONFIRMADA, none ends with success after the other has
\* written the row
C30_UnaSola ==
    \A q \in reqs \ reqs' :
        (q.estado \in Activas /\ last'.status \in {200, 204}) =>
            /\ q.op = "cancelar" => citas[q.cita_id].estado # "COMPLETADA"
            /\ q.op = "completar" => ~Cancelada(citas[q.cita_id])

\* C30: of a cancellation and a completion of one PENDIENTE or CONFIRMADA
\* appointment that interleave, each reading the row and writing it in
\* separate steps, at most one succeeds, and the row never ends COMPLETADA
\* with cancellation fields or cancelled with the fields of a consultation
C30_CancelCompleteExclusive == [](C30_SinMezcla) /\ [][C30_UnaSola]_vars
====
